---- MODULE Spec2Model ----
(***************************************************************************)
(* Model of src/utils/cube_texture.rs: construction (CubeTexture::new,     *)
(* CubeTexture::from_pixels, create_texture_image and the helpers it       *)
(* calls), and destruction (Drop for CubeTexture) of a cube texture.       *)
(*                                                                         *)
(* The host thread is a sequential program whose position is pc.  The      *)
(* device is a second process: it executes the command buffers the host    *)
(* has submitted.  Every Vulkan call the host makes is appended to calls.  *)
(***************************************************************************)
EXTENDS Integers, Sequences, FiniteSets, TLC

(***************************************************************************)
(* Bounds of the model.                                                    *)
(***************************************************************************)
\* small widths and heights passed to from_pixels are 0..MaxDim
MaxDim == 2
\* pixel_data.len() passed to from_pixels is 0..MaxPixelLen, or the exact
\* size of the texels
MaxPixelLen == 5
\* decoded faces in CubeTexture::new are 1..MaxFaceDim wide and high
MaxFaceDim == 2
\* small array_size values passed to from_pixels are 0..MaxLayers
MaxLayers == 1

\* mip level counts passed to transition_image_layout and generate_mipmaps
\* when they are exercised on their own are 1..MaxMips
MaxMips == 3
\* widths and heights passed to generate_mipmaps on its own are 1..MaxMipDim
MaxMipDim == 5

\* widths and heights whose byte size overflows 32 bits
BigDims == {16384, 32768}
Dims == (0 .. MaxDim) \cup BigDims
FaceDims == 1 .. MaxFaceDim
ArraySizes == (0 .. MaxLayers) \cup {6}
PixelLens == 0 .. MaxPixelLen
Formats == {"R8G8B8A8_SRGB", "R8G8B8A8_UNORM"}
MipCounts == 1 .. MaxMips
LayerCounts == ArraySizes \ {0}
\* widths and heights of the images whose mip chain is generated
MipDims == 1 .. MaxMipDim
\* values of vk::ImageLayout
Layouts == {"UNDEFINED", "GENERAL", "TRANSFER_DST_OPTIMAL",
            "TRANSFER_SRC_OPTIMAL", "SHADER_READ_ONLY_OPTIMAL",
            "COLOR_ATTACHMENT_OPTIMAL"}

(***************************************************************************)
(* Unsigned machine integers.  A value is the sequence of its base-256     *)
(* digits, least significant first, without leading zero digits; a u32 is  *)
(* at most 4 digits long and a u64 (vk::DeviceSize) at most 8.             *)
(***************************************************************************)
RECURSIVE Norm(_)
Norm(a) ==
    IF a = <<>> THEN <<>>
    ELSE IF a[Len(a)] = 0 THEN Norm(SubSeq(a, 1, Len(a) - 1))
    ELSE a

RECURSIVE ToDigits(_)
ToDigits(n) == IF n = 0 THEN <<>> ELSE <<n % 256>> \o ToDigits(n \div 256)

\* a * k + carry, for a digit sequence a and an integer k below 2^22
RECURSIVE MulDigits(_, _, _)
MulDigits(a, k, carry) ==
    IF a = <<>> THEN ToDigits(carry)
    ELSE LET t == Head(a) * k + carry
         IN  <<t % 256>> \o MulDigits(Tail(a), k, t \div 256)

\* the exact product, of any length
Mul(a, k) == Norm(MulDigits(a, k, 0))

\* the low 32 bits of a value
TruncU32(a) == Norm(SubSeq(a, 1, IF Len(a) < 4 THEN Len(a) ELSE 4))

\* u32 * u32 as release builds compute it (wrapping)
WrappingMulU32(a, k) == TruncU32(Mul(a, k))

\* u32 * u32 overflows: builds with overflow checks panic here
OverflowsU32(a, k) == Len(Mul(a, k)) > 4

RECURSIVE LessFrom(_, _, _)
LessFrom(a, b, i) ==
    IF i = 0 THEN FALSE
    ELSE IF a[i] # b[i] THEN a[i] < b[i]
    ELSE LessFrom(a, b, i - 1)

\* a < b for two values
Less(a, b) ==
    IF Len(a) # Len(b) THEN Len(a) < Len(b) ELSE LessFrom(a, b, Len(a))

Max(a, b) == IF a < b THEN b ELSE a

RECURSIVE FloorLog2(_)
FloorLog2(n) == IF n <= 1 THEN 0 ELSE 1 + FloorLog2(n \div 2)

(***************************************************************************)
(* State.                                                                  *)
(***************************************************************************)
VARIABLES
    pc,               \* position of the host thread
    failed_at,        \* the call at which the host died, or "none"
    overflow_checks,  \* the build panics on integer overflow (debug profile)
    \* locals of CubeTexture::new
    initialized, image_width, image_height, image_array_len, face_idx,
    first_face,       \* <<width, height>> of the first decoded face
    \* arguments of from_pixels / create_texture_image
    format, pixel_len, width, height, array_size, create_mips,
    \* locals of create_texture_image
    mem_size, mip_levels,
    callee_args,      \* arguments of the function create_texture_image calls
    staging,          \* the staging buffer: size, mapped range, bytes written
    res,              \* state of every GPU object: "none", "live", "released"
    image_info,       \* vk::ImageCreateInfo of texture_image
    view_info,        \* vk::ImageViewCreateInfo of texture_image_view
    sampler_info,     \* vk::SamplerCreateInfo of texture_sampler
    texture,          \* the CubeTexture value, once from_pixels has returned
    cmd_bufs,         \* every single-time command buffer, in order of begin
    executed,         \* the commands the device has executed, in order
    calls             \* every device call of the host, in order

newVars == <<initialized, image_width, image_height, image_array_len,
             face_idx, first_face>>
argVars == <<format, pixel_len, width, height, array_size, create_mips>>
localVars == <<mem_size, mip_levels, callee_args>>
infoVars == <<image_info, view_info, sampler_info, texture>>
devVars == <<cmd_bufs, executed>>
vars == <<pc, failed_at, overflow_checks, newVars, argVars, localVars,
          staging, res, infoVars, devVars, calls>>

Resources == {"staging_buffer", "staging_buffer_memory", "texture_image",
              "texture_image_memory", "texture_image_view", "texture_sampler"}

NoInfo == [set |-> FALSE]

\* an entry of calls: the function that makes the call, and the call
Call(fn, c) == <<fn, c>>

Init ==
    /\ pc = "idle"
    /\ failed_at = "none"
    /\ overflow_checks \in BOOLEAN
    /\ initialized = FALSE
    /\ image_width = 0
    /\ image_height = 0
    /\ image_array_len = 0
    /\ face_idx = 0
    /\ first_face = <<0, 0>>
    /\ format = "none"
    /\ pixel_len = <<>>
    /\ width = 0
    /\ height = 0
    /\ array_size = 0
    /\ create_mips = FALSE
    /\ mem_size = <<>>
    /\ mip_levels = 0
    /\ callee_args = NoInfo
    /\ staging = [size |-> <<>>, mapped |-> <<>>, written |-> <<>>]
    /\ res = [r \in Resources |-> "none"]
    /\ image_info = NoInfo
    /\ view_info = NoInfo
    /\ sampler_info = NoInfo
    /\ texture = NoInfo
    /\ cmd_bufs = <<>>
    /\ executed = <<>>
    /\ calls = <<>>

(***************************************************************************)
(* Fatal failure: panic!, .expect() and .unwrap() unwind the host thread.  *)
(* No value on the stack of the construction has a destructor that         *)
(* releases a GPU object, so unwinding releases nothing.                   *)
(***************************************************************************)

\* Panic, had unwinding released what the construction had created
PanicWithRollback(at) ==
    /\ pc' = "failed"
    /\ failed_at' = at
    /\ res' = [r \in Resources |->
                 IF res[r] = "live" THEN "released" ELSE res[r]]
    /\ UNCHANGED <<overflow_checks, newVars, argVars, localVars, staging,
                   infoVars, devVars, calls>>

Panic(at) ==
    /\ pc' = "failed"
    /\ failed_at' = at
    /\ UNCHANGED <<overflow_checks, newVars, argVars, localVars, staging,
                   res, infoVars, devVars, calls>>

(***************************************************************************)
(* CubeTexture::new                                                        *)
(***************************************************************************)
\* lines 43-46: the locals before the loop over the six faces
new ==
    /\ pc = "idle"
    /\ pc' = "new_face"
    /\ initialized' = FALSE
    /\ image_width' = 0
    /\ image_height' = 0
    /\ image_array_len' = 0
    /\ face_idx' = 0
    /\ UNCHANGED <<failed_at, overflow_checks, first_face, argVars,
                   localVars, staging, res, infoVars, devVars, calls>>

\* lines 48-66: one iteration of the loop; the decoder yields a face of
\* w x h pixels as 4 * w * h bytes of RGBA8, or fails (unwrap)
new_face ==
    /\ pc = "new_face"
    /\ face_idx < 6
    /\ \/ \E w \in FaceDims, h \in FaceDims :
            /\ IF ~initialized
                 THEN image_width' = w /\ image_height' = h
                 ELSE UNCHANGED <<image_width, image_height>>
            /\ image_array_len' = image_array_len + 4 * w * h
            /\ first_face' = IF face_idx = 0 THEN <<w, h>> ELSE first_face
            /\ face_idx' = face_idx + 1
            /\ UNCHANGED <<pc, failed_at, initialized, overflow_checks,
                           argVars, localVars, staging, res, infoVars,
                           devVars, calls>>
       \/ Panic("image::open")

\* the call of create_texture_image at lines 79-80, with the arguments of
\* from_pixels bound
from_pixels(fmt, len, w, h, layers, mips) ==
    /\ pc' = "cti_size"
    /\ format' = fmt
    /\ pixel_len' = len
    /\ width' = w
    /\ height' = h
    /\ array_size' = layers
    /\ create_mips' = mips
    /\ UNCHANGED <<failed_at, overflow_checks, newVars, localVars, staging,
                   res, infoVars, devVars, calls>>

\* lines 68-69: new passes the concatenated faces to from_pixels
new_from_pixels ==
    /\ pc = "new_face"
    /\ face_idx = 6
    /\ from_pixels("R8G8B8A8_SRGB", ToDigits(image_array_len), image_width,
                   image_height, 6, TRUE)

\* the lengths of the pixel buffers passed with a width, a height and a
\* number of layers: the short ones, and the 4 * w * h * layers bytes of the
\* RGBA8 texels of all layers
PixelBufferLens(w, h, layers) ==
    {ToDigits(len) : len \in PixelLens}
      \cup {Mul(Mul(Mul(ToDigits(4), w), h), layers)}

\* a caller passes raw pixels to from_pixels
call_from_pixels ==
    /\ pc = "idle"
    /\ \E fmt \in Formats, w \in Dims, h \in Dims, layers \in ArraySizes,
          mips \in BOOLEAN :
            \E len \in PixelBufferLens(w, h, layers) :
              from_pixels(fmt, len, w, h, layers, mips)

(***************************************************************************)
(* Single-use command buffers (buffer_utils) and the device.               *)
(***************************************************************************)
\* the command buffer the running function holds: the last one begun
CurrentCmd == Len(cmd_bufs)

Pending == {i \in 1 .. Len(cmd_bufs) : cmd_bufs[i].state = "pending"}

\* begin_single_time_command: a new command buffer, in recording state
begin_single_time_command(fn, at, next) ==
    /\ pc = at
    /\ cmd_bufs' = Append(cmd_bufs, [owner |-> fn, state |-> "recording",
                                     commands |-> <<>>])
    /\ calls' = Append(calls, Call(fn, "begin_single_time_command"))
    /\ pc' = next
    /\ UNCHANGED <<failed_at, overflow_checks, newVars, argVars, localVars,
                   staging, res, infoVars, executed>>

\* a function records commands into the command buffer it holds
Record(commands) ==
    cmd_bufs' = [cmd_bufs EXCEPT ![CurrentCmd].commands = @ \o commands]

\* end_single_time_command, first half: end the command buffer and submit
\* it to the queue
end_single_time_command(fn, at, next) ==
    /\ pc = at
    /\ cmd_bufs' = [cmd_bufs EXCEPT ![CurrentCmd].state = "pending"]
    /\ calls' = Append(calls, Call(fn, "end_single_time_command"))
    /\ pc' = next
    /\ UNCHANGED <<failed_at, overflow_checks, newVars, argVars, localVars,
                   staging, res, infoVars, executed>>

\* end_single_time_command, second half: block until the queue is idle,
\* then free the command buffer and return
queue_wait_idle(fn, at, next) ==
    /\ pc = at
    /\ Pending = {}
    /\ cmd_bufs' = [cmd_bufs EXCEPT ![CurrentCmd].state = "freed"]
    /\ calls' = Append(calls, Call(fn, "queue_wait_idle"))
    /\ pc' = next
    /\ UNCHANGED <<failed_at, overflow_checks, newVars, argVars, staging,
                   res, infoVars, executed>>

\* the device executes the oldest submitted command buffer
device_execute ==
    /\ Pending # {}
    /\ LET i == CHOOSE j \in Pending : \A k \in Pending : j <= k
       IN  /\ executed' = executed \o cmd_bufs[i].commands
           /\ cmd_bufs' = [cmd_bufs EXCEPT ![i].state = "complete"]
    /\ UNCHANGED <<pc, failed_at, overflow_checks, newVars, argVars,
                   localVars, staging, res, infoVars, calls>>

(***************************************************************************)
(* create_texture_image                                                    *)
(***************************************************************************)
\* line 124: size_of::<u8>() as u32 * 4 * image_width * image_height *
\* array_size, multiplied left to right in u32.  value is the wrapped
\* product; overflow tells whether one of the multiplications overflowed.
MemSizeU32(w, h, layers) ==
    LET x1 == WrappingMulU32(ToDigits(1), 4)
        x2 == WrappingMulU32(x1, w)
        x3 == WrappingMulU32(x2, h)
        x4 == WrappingMulU32(x3, layers)
    IN  [value    |-> x4,
         overflow |-> \/ OverflowsU32(ToDigits(1), 4)
                      \/ OverflowsU32(x1, w)
                      \/ OverflowsU32(x2, h)
                      \/ OverflowsU32(x3, layers)]

\* lines 126-133: floor(log2(max(width, height) as f32)) + 1 when mips are
\* requested; log2(0.0) is -inf, which the cast to u32 saturates to 0
CandidateMipLevels(w, h, mips) ==
    IF mips
      THEN (IF Max(w, h) = 0 THEN 0 ELSE FloorLog2(Max(w, h))) + 1
      ELSE 1


\* ForcedMipLevels, had line 136 not shadowed the candidate
ForcedMipLevelsHonoured(candidate) == candidate

\* lines 135-136: the candidate is shadowed by the constant 1
ForcedMipLevels(candidate) == 1

\* lines 124-141: mem_size, mip_levels and the check of mem_size
create_texture_image_size ==
    /\ pc = "cti_size"
    /\ LET m == MemSizeU32(width, height, array_size)
       IN  IF m.overflow /\ overflow_checks
             THEN Panic("mem_size overflow")
           ELSE IF m.value = <<>>
             THEN Panic("mem_size <= 0")
           ELSE /\ mem_size' = m.value
                /\ mip_levels' =
                     ForcedMipLevels(CandidateMipLevels(width, height,
                                                        create_mips))
                /\ pc' = "cti_create_buffer"
                /\ UNCHANGED <<failed_at, overflow_checks, newVars, argVars,
                               callee_args, staging, res, infoVars, devVars,
                               calls>>

\* buffer_utils::create_buffer: the buffer and its memory, or a fatal error
create_buffer_outcomes == {"ok", "fatal"}

\* lines 143-149: the staging buffer of mem_size bytes
create_texture_image_create_buffer ==
    /\ pc = "cti_create_buffer"
    /\ \E outcome \in create_buffer_outcomes :
         IF outcome = "ok"
           THEN /\ res' = [res EXCEPT !["staging_buffer"] = "live",
                                      !["staging_buffer_memory"] = "live"]
                /\ staging' = [staging EXCEPT !.size = mem_size]
                /\ calls' = Append(calls, Call("create_texture_image",
                                               "create_buffer"))
                /\ pc' = "cti_map"
                /\ UNCHANGED <<failed_at, overflow_checks, newVars, argVars,
                               localVars, infoVars, devVars>>
           ELSE Panic("create_buffer")

\* lines 151-164: map mem_size bytes, copy image_data.len() bytes, unmap.
\* Copying more bytes than are mapped writes outside the mapping, which is
\* undefined: the process may go on or die.
create_texture_image_fill ==
    /\ pc = "cti_map"
    /\ \/ /\ staging' = [staging EXCEPT !.mapped = mem_size,
                                        !.written = pixel_len]
          /\ calls' = calls \o <<Call("create_texture_image", "map_memory"),
                                 Call("create_texture_image", "unmap_memory")>>
          /\ pc' = "ci_create_image"
          /\ UNCHANGED <<failed_at, overflow_checks, newVars, argVars,
                         localVars, res, infoVars, devVars>>
       \/ Panic("map_memory")
       \/ /\ Less(mem_size, pixel_len)
          /\ staging' = [staging EXCEPT !.mapped = mem_size,
                                        !.written = pixel_len]
          /\ calls' = Append(calls, Call("create_texture_image",
                                         "map_memory"))
          /\ pc' = "failed"
          /\ failed_at' = "copy_from_nonoverlapping"
          /\ UNCHANGED <<overflow_checks, newVars, argVars, localVars, res,
                         infoVars, devVars>>

(***************************************************************************)
(* create_image                                                            *)
(***************************************************************************)
\* lines 394-420: the image, with the create info of lines 394-414
create_image ==
    /\ pc = "ci_create_image"
    /\ \/ /\ res' = [res EXCEPT !["texture_image"] = "live"]
          /\ image_info' = [set |-> TRUE, width |-> width, height |-> height,
                            mip_levels |-> mip_levels,
                            array_layers |-> array_size,
                            initial_layout |-> "UNDEFINED"]
          /\ calls' = Append(calls, Call("create_image", "create_image"))
          /\ pc' = "ci_allocate_memory"
          /\ UNCHANGED <<failed_at, overflow_checks, newVars, argVars,
                         localVars, staging, view_info, sampler_info,
                         texture, devVars>>
       \/ Panic("create_image")

\* lines 422-439: the memory of the image
create_image_allocate_memory ==
    /\ pc = "ci_allocate_memory"
    /\ \/ /\ res' = [res EXCEPT !["texture_image_memory"] = "live"]
          /\ calls' = Append(calls, Call("create_image", "allocate_memory"))
          /\ pc' = "ci_bind_image_memory"
          /\ UNCHANGED <<failed_at, overflow_checks, newVars, argVars,
                         localVars, staging, infoVars, devVars>>
       \/ Panic("allocate_memory")


\* create_image_bind_image_memory, had create_texture_image gone from
\* create_image straight to copy_buffer_to_image
create_image_bind_image_memory_no_transition ==
    /\ pc = "ci_bind_image_memory"
    /\ \/ /\ calls' = Append(calls, Call("create_image",
                                         "bind_image_memory"))
          /\ callee_args' = [set |-> TRUE, buffer |-> "staging_buffer",
                             width |-> width, height |-> height,
                             array_size |-> array_size]
          /\ pc' = "cbi_begin"
          /\ UNCHANGED <<failed_at, overflow_checks, newVars, argVars,
                         mem_size, mip_levels, staging, res, infoVars,
                         devVars>>
       \/ Panic("bind_image_memory")

\* lines 441-447 and 180-190: bind the memory, return to
\* create_texture_image, which calls transition_image_layout
create_image_bind_image_memory ==
    /\ pc = "ci_bind_image_memory"
    /\ \/ /\ calls' = Append(calls, Call("create_image",
                                         "bind_image_memory"))
          /\ callee_args' = [set |-> TRUE,
                             old_layout |-> "UNDEFINED",
                             new_layout |-> "TRANSFER_DST_OPTIMAL",
                             mip_levels |-> mip_levels,
                             layer_count |-> array_size]
          /\ pc' = "til_begin"
          /\ UNCHANGED <<failed_at, overflow_checks, newVars, argVars,
                         mem_size, mip_levels, staging, res, infoVars,
                         devVars>>
       \/ Panic("bind_image_memory")

(***************************************************************************)
(* transition_image_layout                                                 *)
(***************************************************************************)
\* line 462
transition_image_layout_begin ==
    begin_single_time_command("transition_image_layout", "til_begin",
                              "til_record")


\* TransitionMasks, had the chain of tests ended in a fourth supported pair
\* instead of the panic
TransitionMasksFourthPair(old_layout, new_layout) ==
    IF old_layout = "UNDEFINED" /\ new_layout = "TRANSFER_DST_OPTIMAL"
      THEN [supported |-> TRUE,
            src_access_mask |-> {},
            dst_access_mask |-> {"TRANSFER_WRITE"},
            source_stage |-> "TOP_OF_PIPE",
            destination_stage |-> "TRANSFER"]
    ELSE IF old_layout = "TRANSFER_DST_OPTIMAL"
            /\ new_layout = "SHADER_READ_ONLY_OPTIMAL"
      THEN [supported |-> TRUE,
            src_access_mask |-> {"TRANSFER_WRITE"},
            dst_access_mask |-> {"SHADER_READ"},
            source_stage |-> "TRANSFER",
            destination_stage |-> "FRAGMENT_SHADER"]
    ELSE IF old_layout = "UNDEFINED"
            /\ new_layout = "COLOR_ATTACHMENT_OPTIMAL"
      THEN [supported |-> TRUE,
            src_access_mask |-> {},
            dst_access_mask |-> {"COLOR_ATTACHMENT_READ",
                                 "COLOR_ATTACHMENT_WRITE"},
            source_stage |-> "TOP_OF_PIPE",
            destination_stage |-> "COLOR_ATTACHMENT_OUTPUT"]
    ELSE IF old_layout = "TRANSFER_SRC_OPTIMAL"
            /\ new_layout = "SHADER_READ_ONLY_OPTIMAL"
      THEN [supported |-> TRUE,
            src_access_mask |-> {"TRANSFER_READ"},
            dst_access_mask |-> {"SHADER_READ"},
            source_stage |-> "TRANSFER",
            destination_stage |-> "FRAGMENT_SHADER"]
    ELSE [supported |-> FALSE]

\* lines 469-493: the access masks and stages of a supported pair of layouts
TransitionMasks(old_layout, new_layout) ==
    IF old_layout = "UNDEFINED" /\ new_layout = "TRANSFER_DST_OPTIMAL"
      THEN [supported |-> TRUE,
            src_access_mask |-> {},
            dst_access_mask |-> {"TRANSFER_WRITE"},
            source_stage |-> "TOP_OF_PIPE",
            destination_stage |-> "TRANSFER"]
    ELSE IF old_layout = "TRANSFER_DST_OPTIMAL"
            /\ new_layout = "SHADER_READ_ONLY_OPTIMAL"
      THEN [supported |-> TRUE,
            src_access_mask |-> {"TRANSFER_WRITE"},
            dst_access_mask |-> {"SHADER_READ"},
            source_stage |-> "TRANSFER",
            destination_stage |-> "FRAGMENT_SHADER"]
    ELSE IF old_layout = "UNDEFINED"
            /\ new_layout = "COLOR_ATTACHMENT_OPTIMAL"
      THEN [supported |-> TRUE,
            src_access_mask |-> {},
            dst_access_mask |-> {"COLOR_ATTACHMENT_READ",
                                 "COLOR_ATTACHMENT_WRITE"},
            source_stage |-> "TOP_OF_PIPE",
            destination_stage |-> "COLOR_ATTACHMENT_OUTPUT"]
    ELSE [supported |-> FALSE]

\* Barrier, had the subresource range covered one array layer instead of
\* layer_count
BarrierOneLayer(from, to, src_access, dst_access, src_stage, dst_stage, base, n, l) ==
    [op |-> "pipeline_barrier",
     old_layout |-> from, new_layout |-> to,
     src_access_mask |-> src_access, dst_access_mask |-> dst_access,
     src_stage |-> src_stage, dst_stage |-> dst_stage,
     base_mip_level |-> base, level_count |-> n,
     base_array_layer |-> 0, layer_count |-> 1]

\* a vk::ImageMemoryBarrier together with the stages it is recorded with
Barrier(from, to, src_access, dst_access, src_stage, dst_stage, base, n, l) ==
    [op |-> "pipeline_barrier",
     old_layout |-> from, new_layout |-> to,
     src_access_mask |-> src_access, dst_access_mask |-> dst_access,
     src_stage |-> src_stage, dst_stage |-> dst_stage,
     base_mip_level |-> base, level_count |-> n,
     base_array_layer |-> 0, layer_count |-> l]


\* transition_image_layout_record, had the barrier covered one mip level
\* instead of mip_levels
transition_image_layout_record_one_level ==
    /\ pc = "til_record"
    /\ LET m == TransitionMasks(callee_args.old_layout,
                                callee_args.new_layout)
       IN  IF ~m.supported
             THEN Panic("Unsupported layout transition!")
             ELSE /\ Record(<<Barrier(callee_args.old_layout,
                                      callee_args.new_layout,
                                      m.src_access_mask, m.dst_access_mask,
                                      m.source_stage, m.destination_stage,
                                      0, 1, callee_args.layer_count)>>)
                  /\ calls' = Append(calls, Call("transition_image_layout",
                                                 "cmd_pipeline_barrier"))
                  /\ pc' = "til_end"
                  /\ UNCHANGED <<failed_at, overflow_checks, newVars,
                                 argVars, localVars, staging, res, infoVars,
                                 executed>>

\* lines 464-526: choose the masks or panic, record the barrier
transition_image_layout_record ==
    /\ pc = "til_record"
    /\ LET m == TransitionMasks(callee_args.old_layout,
                                callee_args.new_layout)
       IN  IF ~m.supported
             THEN Panic("Unsupported layout transition!")
             ELSE /\ Record(<<Barrier(callee_args.old_layout,
                                      callee_args.new_layout,
                                      m.src_access_mask, m.dst_access_mask,
                                      m.source_stage, m.destination_stage,
                                      0, callee_args.mip_levels,
                                      callee_args.layer_count)>>)
                  /\ calls' = Append(calls, Call("transition_image_layout",
                                                 "cmd_pipeline_barrier"))
                  /\ pc' = "til_end"
                  /\ UNCHANGED <<failed_at, overflow_checks, newVars,
                                 argVars, localVars, staging, res, infoVars,
                                 executed>>

\* line 528
transition_image_layout_end ==
    end_single_time_command("transition_image_layout", "til_end", "til_wait")

\* line 528, and the call of copy_buffer_to_image at lines 192-201
transition_image_layout_wait ==
    /\ queue_wait_idle("transition_image_layout", "til_wait", "cbi_begin")
    /\ callee_args' = [set |-> TRUE, buffer |-> "staging_buffer",
                       width |-> width, height |-> height,
                       array_size |-> array_size]
    /\ UNCHANGED <<mem_size, mip_levels>>

(***************************************************************************)
(* copy_buffer_to_image                                                    *)
(***************************************************************************)
\* line 542
copy_buffer_to_image_begin ==
    begin_single_time_command("copy_buffer_to_image", "cbi_begin",
                              "cbi_record")

\* lines 544-560: the one region of the copy
BufferImageCopy(buffer, w, h, layers) ==
    [op |-> "copy_buffer_to_image",
     buffer |-> buffer,
     dst_image_layout |-> "TRANSFER_DST_OPTIMAL",
     mip_level |-> 0, base_array_layer |-> 0, layer_count |-> layers,
     image_extent |-> <<w, h, 1>>,
     buffer_offset |-> 0, buffer_row_length |-> 0, buffer_image_height |-> 0,
     image_offset |-> <<0, 0, 0>>]

\* a + b + carry for two values
RECURSIVE AddDigits(_, _, _)
AddDigits(a, b, carry) ==
    IF a = <<>> /\ b = <<>> THEN ToDigits(carry)
    ELSE LET x == IF a = <<>> THEN 0 ELSE Head(a)
             y == IF b = <<>> THEN 0 ELSE Head(b)
         IN  <<(x + y + carry) % 256>>
               \o AddDigits(IF a = <<>> THEN a ELSE Tail(a),
                            IF b = <<>> THEN b ELSE Tail(b),
                            (x + y + carry) \div 256)

\* the exact sum, of any length
Add(a, b) == Norm(AddDigits(a, b, 0))

\* the size of a texel of the formats from_pixels is called with
TexelBytes == 4

\* lines 544-560: the bytes of the buffer that hold one array layer of the
\* region; rows and layers are tightly packed when buffer_row_length and
\* buffer_image_height are 0
LayerBytes(c) ==
    LET row == IF c.buffer_row_length = 0 THEN c.image_extent[1]
               ELSE c.buffer_row_length
        rows == IF c.buffer_image_height = 0 THEN c.image_extent[2]
                ELSE c.buffer_image_height
    IN  Mul(Mul(ToDigits(TexelBytes), row), rows)

\* lines 544-570: the byte range [from, to) of the buffer that the copy
\* puts into array layer k of the mip level it names
LayerSource(c, k) ==
    LET from == Add(ToDigits(c.buffer_offset),
                    Mul(LayerBytes(c), k - c.base_array_layer))
    IN  [from |-> from, to |-> Add(from, LayerBytes(c))]

\* lines 143-164: the staging buffer holds, at the same offsets, the bytes
\* of the pixel buffer below this offset
StagedBytes ==
    IF Less(staging.size, staging.written) THEN staging.size
    ELSE staging.written

\* lines 544-570
copy_buffer_to_image_record ==
    /\ pc = "cbi_record"
    /\ Record(<<BufferImageCopy(callee_args.buffer, callee_args.width,
                                callee_args.height, callee_args.array_size)>>)
    /\ calls' = Append(calls, Call("copy_buffer_to_image",
                                   "cmd_copy_buffer_to_image"))
    /\ pc' = "cbi_end"
    /\ UNCHANGED <<failed_at, overflow_checks, newVars, argVars, localVars,
                   staging, res, infoVars, executed>>


\* copy_buffer_to_image_end, had copy_buffer_to_image returned without
\* ending and submitting its command buffer
copy_buffer_to_image_end_missing ==
    /\ pc = "cbi_end"
    /\ pc' = "cti_destroy_buffer"
    /\ UNCHANGED <<failed_at, overflow_checks, newVars, argVars, localVars,
                   staging, res, infoVars, devVars, calls>>

\* line 572
copy_buffer_to_image_end ==
    end_single_time_command("copy_buffer_to_image", "cbi_end", "cbi_wait")

\* line 572, and the return to create_texture_image
copy_buffer_to_image_wait ==
    /\ queue_wait_idle("copy_buffer_to_image", "cbi_wait",
                       "cti_destroy_buffer")
    /\ UNCHANGED localVars

\* line 204
create_texture_image_destroy_buffer ==
    /\ pc = "cti_destroy_buffer"
    /\ res' = [res EXCEPT !["staging_buffer"] = "released"]
    /\ calls' = Append(calls, Call("create_texture_image", "destroy_buffer"))
    /\ pc' = "cti_free_memory"
    /\ UNCHANGED <<failed_at, overflow_checks, newVars, argVars, localVars,
                   staging, infoVars, devVars>>

\* line 205, and the call of generate_mipmaps at lines 209-218
create_texture_image_free_memory ==
    /\ pc = "cti_free_memory"
    /\ res' = [res EXCEPT !["staging_buffer_memory"] = "released"]
    /\ calls' = Append(calls, Call("create_texture_image", "free_memory"))
    /\ callee_args' = [set |-> TRUE, tex_width |-> width,
                       tex_height |-> height, mip_levels |-> mip_levels,
                       layer_count |-> array_size]
    /\ pc' = "gm_begin"
    /\ UNCHANGED <<failed_at, overflow_checks, newVars, argVars, mem_size,
                   mip_levels, staging, infoVars, devVars>>

(***************************************************************************)
(* generate_mipmaps                                                        *)
(***************************************************************************)
\* line 233
generate_mipmaps_begin ==
    begin_single_time_command("generate_mipmaps", "gm_begin", "gm_record")

\* ImageBlit, had the blit covered the six faces of the cube
ImageBlitSixFaces(i, mip_width, mip_height) ==
    [op |-> "blit_image",
     src_image_layout |-> "TRANSFER_SRC_OPTIMAL",
     dst_image_layout |-> "TRANSFER_DST_OPTIMAL",
     src_mip_level |-> i - 1, src_base_array_layer |-> 0,
     src_layer_count |-> 6,
     src_extent |-> <<mip_width, mip_height, 1>>,
     dst_mip_level |-> i, dst_base_array_layer |-> 0,
     dst_layer_count |-> 6,
     dst_extent |-> <<Max(mip_width \div 2, 1), Max(mip_height \div 2, 1), 1>>,
     filter |-> "LINEAR"]

\* ImageBlit, had the destination extent been the halved extent without the
\* floor at 1
ImageBlitNoFloor(i, mip_width, mip_height) ==
    [op |-> "blit_image",
     src_image_layout |-> "TRANSFER_SRC_OPTIMAL",
     dst_image_layout |-> "TRANSFER_DST_OPTIMAL",
     src_mip_level |-> i - 1, src_base_array_layer |-> 0,
     src_layer_count |-> 1,
     src_extent |-> <<mip_width, mip_height, 1>>,
     dst_mip_level |-> i, dst_base_array_layer |-> 0,
     dst_layer_count |-> 1,
     dst_extent |-> <<mip_width \div 2, mip_height \div 2, 1>>,
     filter |-> "LINEAR"]

\* lines 276-305: the blit from level i - 1 to level i
ImageBlit(i, mip_width, mip_height) ==
    [op |-> "blit_image",
     src_image_layout |-> "TRANSFER_SRC_OPTIMAL",
     dst_image_layout |-> "TRANSFER_DST_OPTIMAL",
     src_mip_level |-> i - 1, src_base_array_layer |-> 0,
     src_layer_count |-> 1,
     src_extent |-> <<mip_width, mip_height, 1>>,
     dst_mip_level |-> i, dst_base_array_layer |-> 0,
     dst_layer_count |-> 1,
     dst_extent |-> <<Max(mip_width \div 2, 1), Max(mip_height \div 2, 1), 1>>,
     filter |-> "LINEAR"]

\* lines 257-338: the commands of the iterations i, i + 1, ... of the loop
RECURSIVE MipLoop(_, _, _, _, _)
MipLoop(i, levels, mip_width, mip_height, layer_count) ==
    IF i >= levels THEN <<>>
    ELSE <<Barrier("TRANSFER_DST_OPTIMAL", "TRANSFER_SRC_OPTIMAL",
                   {"TRANSFER_WRITE"}, {"TRANSFER_READ"},
                   "TRANSFER", "TRANSFER", i - 1, 1, layer_count),
           ImageBlit(i, mip_width, mip_height),
           Barrier("TRANSFER_SRC_OPTIMAL", "SHADER_READ_ONLY_OPTIMAL",
                   {"TRANSFER_READ"}, {"SHADER_READ"},
                   "TRANSFER", "FRAGMENT_SHADER", i - 1, 1, layer_count)>>
         \o MipLoop(i + 1, levels, Max(mip_width \div 2, 1),
                    Max(mip_height \div 2, 1), layer_count)

\* lines 254-255: tex_width as i32. The value is unchanged below 2^31, the
\* largest width an image of a device can have being far below that
AsI32(x) == IF x \div 65536 < 32768 THEN x ELSE x - 65536 * 65536

\* MipCommands, had generate_mipmaps ended after the loop, without the
\* barrier of lines 340-356
MipCommandsLoopOnly(tex_width, tex_height, levels, layer_count) ==
    MipLoop(1, levels, AsI32(tex_width), AsI32(tex_height), layer_count)

\* lines 235-356: everything generate_mipmaps records
MipCommands(tex_width, tex_height, levels, layer_count) ==
    MipLoop(1, levels, AsI32(tex_width), AsI32(tex_height), layer_count)
      \o <<Barrier("TRANSFER_DST_OPTIMAL", "SHADER_READ_ONLY_OPTIMAL",
                   {"TRANSFER_WRITE"}, {"SHADER_READ"},
                   "TRANSFER", "FRAGMENT_SHADER", levels - 1, 1,
                   layer_count)>>

\* generate_mipmaps_record, had the barrier of the last level been recorded
\* before the loop instead of after it
generate_mipmaps_record_final_first ==
    /\ pc = "gm_record"
    /\ LET all == MipCommands(callee_args.tex_width,
                              callee_args.tex_height,
                              callee_args.mip_levels,
                              callee_args.layer_count)
           commands == <<all[Len(all)]>> \o SubSeq(all, 1, Len(all) - 1)
       IN  /\ Record(commands)
           /\ calls' = calls \o
                [k \in 1 .. Len(commands) |->
                   Call("generate_mipmaps",
                        IF commands[k].op = "blit_image"
                          THEN "cmd_blit_image"
                          ELSE "cmd_pipeline_barrier")]
    /\ pc' = "gm_end"
    /\ UNCHANGED <<failed_at, overflow_checks, newVars, argVars, localVars,
                   staging, res, infoVars, executed>>

\* lines 235-356
generate_mipmaps_record ==
    /\ pc = "gm_record"
    /\ LET commands == MipCommands(callee_args.tex_width,
                                   callee_args.tex_height,
                                   callee_args.mip_levels,
                                   callee_args.layer_count)
       IN  /\ Record(commands)
           /\ calls' = calls \o
                [k \in 1 .. Len(commands) |->
                   Call("generate_mipmaps",
                        IF commands[k].op = "blit_image"
                          THEN "cmd_blit_image"
                          ELSE "cmd_pipeline_barrier")]
    /\ pc' = "gm_end"
    /\ UNCHANGED <<failed_at, overflow_checks, newVars, argVars, localVars,
                   staging, res, infoVars, executed>>

\* line 358
generate_mipmaps_end ==
    end_single_time_command("generate_mipmaps", "gm_end", "gm_wait")

\* generate_mipmaps_wait, had generate_mipmaps returned without waiting for
\* the queue
generate_mipmaps_wait_not_blocking ==
    /\ pc = "gm_wait"
    /\ calls' = Append(calls, Call("generate_mipmaps", "queue_wait_idle"))
    /\ pc' = "fp_create_image_view"
    /\ UNCHANGED <<failed_at, overflow_checks, newVars, argVars, localVars,
                   staging, res, infoVars, devVars>>

\* line 358, the return of create_texture_image at line 220 and of its
\* results to from_pixels at line 79
generate_mipmaps_wait ==
    /\ queue_wait_idle("generate_mipmaps", "gm_wait", "fp_create_image_view")
    /\ UNCHANGED localVars

(***************************************************************************)
(* from_pixels, after create_texture_image                                 *)
(***************************************************************************)
\* lines 82-85 and 582-617
create_image_view ==
    /\ pc = "fp_create_image_view"
    /\ \/ /\ res' = [res EXCEPT !["texture_image_view"] = "live"]
          /\ view_info' = [set |-> TRUE, view_type |-> "CUBE",
                           base_mip_level |-> 0, level_count |-> mip_levels,
                           base_array_layer |-> 0,
                           layer_count |-> array_size]
          /\ calls' = Append(calls, Call("create_image_view",
                                         "create_image_view"))
          /\ pc' = "fp_create_sampler"
          /\ UNCHANGED <<failed_at, overflow_checks, newVars, argVars,
                         localVars, staging, image_info, sampler_info,
                         texture, devVars>>
       \/ Panic("create_image_view")

\* lines 86 and 619-647
create_texture_sampler ==
    /\ pc = "fp_create_sampler"
    /\ \/ /\ res' = [res EXCEPT !["texture_sampler"] = "live"]
          /\ sampler_info' = [set |-> TRUE, min_lod |-> 0,
                              max_lod |-> mip_levels]
          /\ calls' = Append(calls, Call("create_texture_sampler",
                                         "create_sampler"))
          /\ pc' = "fp_return"
          /\ UNCHANGED <<failed_at, overflow_checks, newVars, argVars,
                         localVars, staging, image_info, view_info, texture,
                         devVars>>
       \/ Panic("create_sampler")

\* lines 88-96: the CubeTexture value
from_pixels_return ==
    /\ pc = "fp_return"
    /\ texture' = [set |-> TRUE, _mip_levels |-> mip_levels,
                   format |-> format]
    /\ pc' = "constructed"
    /\ UNCHANGED <<failed_at, overflow_checks, newVars, argVars, localVars,
                   staging, res, image_info, view_info, sampler_info,
                   devVars, calls>>

(***************************************************************************)
(* Drop for CubeTexture                                                    *)
(***************************************************************************)
\* one call of drop: release resource r, go on to next
Release(r, call, at, next) ==
    /\ pc = at
    /\ res' = [res EXCEPT ![r] = "released"]
    /\ calls' = Append(calls, Call("drop", call))
    /\ pc' = next
    /\ UNCHANGED <<failed_at, overflow_checks, newVars, argVars, localVars,
                   staging, infoVars, devVars>>


\* drop_destroy_sampler, had drop begun with the image view
drop_destroy_sampler_view_first ==
    Release("texture_image_view", "destroy_image_view", "constructed",
            "drop_image_view")

\* line 103: the owner drops the texture
drop_destroy_sampler ==
    Release("texture_sampler", "destroy_sampler", "constructed",
            "drop_image_view")

\* line 104
drop_destroy_image_view ==
    Release("texture_image_view", "destroy_image_view", "drop_image_view",
            "drop_image")

\* line 105
drop_destroy_image ==
    Release("texture_image", "destroy_image", "drop_image", "drop_memory")


\* drop_free_memory, had drop forgotten the image memory
drop_free_memory_forgotten ==
    /\ pc = "drop_memory"
    /\ pc' = "dropped"
    /\ UNCHANGED <<failed_at, overflow_checks, newVars, argVars, localVars,
                   staging, res, infoVars, devVars, calls>>

\* line 106
drop_free_memory ==
    Release("texture_image_memory", "free_memory", "drop_memory", "dropped")

Next ==
    \/ new
    \/ new_face
    \/ new_from_pixels
    \/ call_from_pixels
    \/ create_texture_image_size
    \/ create_texture_image_create_buffer
    \/ create_texture_image_fill
    \/ create_image
    \/ create_image_allocate_memory
    \/ create_image_bind_image_memory
    \/ transition_image_layout_begin
    \/ transition_image_layout_record
    \/ transition_image_layout_end
    \/ transition_image_layout_wait
    \/ copy_buffer_to_image_begin
    \/ copy_buffer_to_image_record
    \/ copy_buffer_to_image_end
    \/ copy_buffer_to_image_wait
    \/ create_texture_image_destroy_buffer
    \/ create_texture_image_free_memory
    \/ generate_mipmaps_begin
    \/ generate_mipmaps_record
    \/ generate_mipmaps_end
    \/ generate_mipmaps_wait
    \/ create_image_view
    \/ create_texture_sampler
    \/ from_pixels_return
    \/ drop_destroy_sampler
    \/ drop_destroy_image_view
    \/ drop_destroy_image
    \/ drop_free_memory
    \/ device_execute

Spec == Init /\ [][Next]_vars
(***************************************************************************)
(* transition_image_layout on its own: a caller that holds an image of     *)
(* levels mip levels and layers array layers passes any pair of layouts.   *)
(***************************************************************************)
\* the arguments and locals of create_texture_image once mip_levels is bound
\* at line 136, for a texture of w x h texels, layers layers and levels levels
Locals(w, h, layers, levels) ==
    /\ failed_at = "none"
    /\ overflow_checks \in BOOLEAN
    /\ initialized = FALSE
    /\ image_width = 0
    /\ image_height = 0
    /\ image_array_len = 0
    /\ face_idx = 0
    /\ first_face = <<0, 0>>
    /\ format = "R8G8B8A8_SRGB"
    /\ width = w
    /\ height = h
    /\ array_size = layers
    /\ mip_levels = levels
    /\ view_info = NoInfo
    /\ sampler_info = NoInfo
    /\ texture = NoInfo
    /\ cmd_bufs = <<>>
    /\ executed = <<>>
    /\ calls = <<>>

\* lines 166-178 and 394-414: the image create_image has returned
ImageCreated(w, h, layers, levels) ==
    /\ image_info = [set |-> TRUE, width |-> w, height |-> h,
                     mip_levels |-> levels, array_layers |-> layers,
                     initial_layout |-> "UNDEFINED"]
    /\ res = [r \in Resources |->
                IF r \in {"texture_image", "texture_image_memory"}
                  THEN "live" ELSE "none"]
    /\ create_mips = FALSE
    /\ pixel_len = <<>>
    /\ mem_size = <<>>
    /\ staging = [size |-> <<>>, mapped |-> <<>>, written |-> <<>>]

\* lines 451-461: transition_image_layout is entered
InitTransition ==
    \E old_layout \in Layouts, new_layout \in Layouts, levels \in MipCounts,
       layers \in LayerCounts :
         /\ Locals(1, 1, layers, levels)
         /\ ImageCreated(1, 1, layers, levels)
         /\ pc = "til_begin"
         /\ callee_args = [set |-> TRUE, old_layout |-> old_layout,
                           new_layout |-> new_layout, mip_levels |-> levels,
                           layer_count |-> layers]

\* lines 528-529: transition_image_layout returns to its caller
transition_image_layout_return ==
    /\ queue_wait_idle("transition_image_layout", "til_wait", "returned")
    /\ UNCHANGED localVars

NextTransition ==
    \/ transition_image_layout_begin
    \/ transition_image_layout_record
    \/ transition_image_layout_end
    \/ transition_image_layout_return
    \/ device_execute

SpecTransition == InitTransition /\ [][NextTransition]_vars

(***************************************************************************)
(* generate_mipmaps on its own, for an image of any size, any number of    *)
(* levels and any number of layers.                                        *)
(***************************************************************************)
\* lines 223-232: generate_mipmaps is entered
InitMipmaps ==
    \E w \in MipDims, h \in MipDims, levels \in MipCounts,
       layers \in LayerCounts :
         /\ Locals(w, h, layers, levels)
         /\ ImageCreated(w, h, layers, levels)
         /\ pc = "gm_begin"
         /\ callee_args = [set |-> TRUE, tex_width |-> w, tex_height |-> h,
                           mip_levels |-> levels, layer_count |-> layers]

\* lines 358-359: generate_mipmaps returns to its caller
generate_mipmaps_return ==
    /\ queue_wait_idle("generate_mipmaps", "gm_wait", "returned")
    /\ UNCHANGED localVars

NextMipmaps ==
    \/ generate_mipmaps_begin
    \/ generate_mipmaps_record
    \/ generate_mipmaps_end
    \/ generate_mipmaps_return
    \/ device_execute

SpecMipmaps == InitMipmaps /\ [][NextMipmaps]_vars

(***************************************************************************)
(* from_pixels from line 137 of create_texture_image on, for every number  *)
(* of mip levels that lines 126-133 can compute, as if line 136 had bound  *)
(* mip_levels to that number.                                              *)
(***************************************************************************)
\* lines 137-141: a non-zero mem_size, and the pixel buffer of that size
InitUpload ==
    \E w \in FaceDims, h \in FaceDims, levels \in MipCounts,
       layers \in LayerCounts :
         /\ Locals(w, h, layers, levels)
         /\ pc = "cti_create_buffer"
         /\ create_mips = TRUE
         /\ pixel_len = ToDigits(4 * w * h * layers)
         /\ mem_size = ToDigits(4 * w * h * layers)
         /\ staging = [size |-> <<>>, mapped |-> <<>>, written |-> <<>>]
         /\ res = [r \in Resources |-> "none"]
         /\ image_info = NoInfo
         /\ callee_args = NoInfo

NextUpload ==
    \/ create_texture_image_create_buffer
    \/ create_texture_image_fill
    \/ create_image
    \/ create_image_allocate_memory
    \/ create_image_bind_image_memory
    \/ transition_image_layout_begin
    \/ transition_image_layout_record
    \/ transition_image_layout_end
    \/ transition_image_layout_wait
    \/ copy_buffer_to_image_begin
    \/ copy_buffer_to_image_record
    \/ copy_buffer_to_image_end
    \/ copy_buffer_to_image_wait
    \/ create_texture_image_destroy_buffer
    \/ create_texture_image_free_memory
    \/ generate_mipmaps_begin
    \/ generate_mipmaps_record
    \/ generate_mipmaps_end
    \/ generate_mipmaps_wait
    \/ create_image_view
    \/ create_texture_sampler
    \/ from_pixels_return
    \/ device_execute

SpecUpload == InitUpload /\ [][NextUpload]_vars

(***************************************************************************)
(* Definitions shared by the properties.                                   *)
(***************************************************************************)
IsPrefix(a, b) == Len(a) <= Len(b) /\ a = SubSeq(b, 1, Len(a))

\* the four handles a CubeTexture owns
Owned == {"texture_image", "texture_image_memory", "texture_image_view",
          "texture_sampler"}

StagingResources == {"staging_buffer", "staging_buffer_memory"}

\* the calls of a successful construction, in program order
ConstructionCalls ==
    <<Call("create_texture_image", "create_buffer"),
      Call("create_texture_image", "map_memory"),
      Call("create_texture_image", "unmap_memory"),
      Call("create_image", "create_image"),
      Call("create_image", "allocate_memory"),
      Call("create_image", "bind_image_memory"),
      Call("transition_image_layout", "begin_single_time_command"),
      Call("transition_image_layout", "cmd_pipeline_barrier"),
      Call("transition_image_layout", "end_single_time_command"),
      Call("transition_image_layout", "queue_wait_idle"),
      Call("copy_buffer_to_image", "begin_single_time_command"),
      Call("copy_buffer_to_image", "cmd_copy_buffer_to_image"),
      Call("copy_buffer_to_image", "end_single_time_command"),
      Call("copy_buffer_to_image", "queue_wait_idle"),
      Call("create_texture_image", "destroy_buffer"),
      Call("create_texture_image", "free_memory"),
      Call("generate_mipmaps", "begin_single_time_command"),
      Call("generate_mipmaps", "cmd_pipeline_barrier"),
      Call("generate_mipmaps", "end_single_time_command"),
      Call("generate_mipmaps", "queue_wait_idle"),
      Call("create_image_view", "create_image_view"),
      Call("create_texture_sampler", "create_sampler")>>

\* the step of from_pixels a function's calls belong to
StepOf(c) ==
    CASE c[1] = "create_texture_image" /\ c[2] \in {"create_buffer",
                                  "map_memory", "unmap_memory"} -> 1
      [] c[1] = "create_image" -> 2
      [] c[1] = "transition_image_layout" -> 3
      [] c[1] = "copy_buffer_to_image" -> 4
      [] c[1] = "create_texture_image" /\ c[2] \in {"destroy_buffer",
                                                    "free_memory"} -> 5
      [] c[1] = "generate_mipmaps" -> 6
      [] c[1] = "create_image_view" -> 7
      [] c[1] = "create_texture_sampler" -> 8
      [] OTHER -> 9

\* the calls that release a GPU object
IsRelease(c) ==
    c[2] \in {"destroy_buffer", "free_memory", "destroy_sampler",
              "destroy_image_view", "destroy_image"}

\* the calls made after the last call of the construction
CallsAfterConstruction ==
    IF Len(calls) <= Len(ConstructionCalls) THEN <<>>
    ELSE SubSeq(calls, Len(ConstructionCalls) + 1, Len(calls))

\* all commands recorded so far, in order of recording
RECURSIVE Flatten(_)
Flatten(bufs) ==
    IF bufs = <<>> THEN <<>> ELSE Head(bufs).commands \o Flatten(Tail(bufs))

\* the positions of the host inside a function that holds a command buffer
InCommandSequence ==
    {"til_record", "til_end", "til_wait", "cbi_record", "cbi_end",
     "cbi_wait", "gm_record", "gm_end", "gm_wait"}

\* the command buffers that are begun and not yet waited on
OpenCmds ==
    {i \in 1 .. Len(cmd_bufs) : cmd_bufs[i].state # "freed"}

(***************************************************************************)
(* C1.  Every successful call of from_pixels makes the calls of its eight  *)
(* steps (staging buffer allocated and filled, image created, layout       *)
(* transition, copy, staging buffer destroyed and freed, generate_mipmaps, *)
(* image view, sampler) exactly once each and in this order, and a command *)
(* buffer that is not yet waited on belongs to the step that made the      *)
(* latest call: no step starts before the previous one has finished.       *)
(***************************************************************************)
FromPixelsStepsInOrder ==
    /\ \A i \in 1 .. Len(calls) - 1 : StepOf(calls[i]) <= StepOf(calls[i + 1])
    /\ \A i \in OpenCmds :
         /\ calls # <<>>
         /\ StepOf(Call(cmd_bufs[i].owner, "")) = StepOf(calls[Len(calls)])
    /\ texture.set =>
         /\ IsPrefix(ConstructionCalls, calls)
         /\ executed = Flatten(cmd_bufs)
         /\ Len(cmd_bufs) = 3

FromPixelsReturned ==
    pc = "constructed" /\ texture.set /\ Len(executed) = 3

(***************************************************************************)
(* C2.  Dropping a CubeTexture releases the sampler, the image view, the   *)
(* image and the image memory, exactly once each and in that order, and    *)
(* makes no other call: the staging objects stay as construction left      *)
(* them.                                                                   *)
(***************************************************************************)
DropCalls ==
    <<Call("drop", "destroy_sampler"), Call("drop", "destroy_image_view"),
      Call("drop", "destroy_image"), Call("drop", "free_memory")>>

DropOrder ==
    <<"texture_sampler", "texture_image_view", "texture_image",
      "texture_image_memory">>

DropReleasesInOrder ==
    texture.set =>
      /\ IsPrefix(CallsAfterConstruction, DropCalls)
      /\ \A k \in 1 .. 4 :
           res[DropOrder[k]] =
             IF k <= Len(CallsAfterConstruction) THEN "released" ELSE "live"
      /\ \A r \in StagingResources : res[r] = "released"
      /\ pc = "dropped" => CallsAfterConstruction = DropCalls

TextureDropped ==
    pc = "dropped" /\ \A r \in Owned : res[r] = "released"

(***************************************************************************)
(* C3 as stated.  In every reachable state the four owned handles are      *)
(* either all live or none of them is.                                     *)
(***************************************************************************)
OwnedAllOrNone ==
    LET live == {r \in Owned : res[r] = "live"}
    IN  live = {} \/ live = Owned

(***************************************************************************)
(* C3 as amended.  While the CubeTexture value exists and is not being     *)
(* dropped all four owned handles are live; before from_pixels is called   *)
(* none exists and once drop has returned all four are released.  Only     *)
(* inside from_pixels and inside drop are some live and others not.        *)
(***************************************************************************)
OwnedAllOrNoneAtRest ==
    /\ pc \in {"idle", "new_face", "cti_size"} =>
         \A r \in Owned : res[r] = "none"
    /\ pc = "constructed" => \A r \in Owned : res[r] = "live"
    /\ pc = "dropped" => \A r \in Owned : res[r] = "released"
    /\ ~OwnedAllOrNone =>
         pc \notin {"idle", "new_face", "cti_size", "constructed", "dropped"}

TextureInUse ==
    pc = "constructed" /\ \A r \in Owned : res[r] = "live"
(***************************************************************************)
(* C4.  Every staging buffer create_texture_image creates is destroyed and *)
(* its memory freed, once, before the call ends, whether it returns or     *)
(* dies; no recorded or submitted command reads the buffer when it is      *)
(* destroyed; and none is live once from_pixels has returned.              *)
(***************************************************************************)
CreateTextureImageEnded ==
    pc \in {"failed", "fp_create_image_view", "fp_create_sampler",
            "fp_return", "constructed", "drop_image_view", "drop_image",
            "drop_memory", "dropped"}

ReadsStagingBuffer(i) ==
    \E k \in 1 .. Len(cmd_bufs[i].commands) :
       /\ cmd_bufs[i].commands[k].op = "copy_buffer_to_image"
       /\ cmd_bufs[i].commands[k].buffer = "staging_buffer"

StagingBufferAlwaysReleased ==
    /\ CreateTextureImageEnded =>
         \A r \in StagingResources : res[r] # "live"
    /\ res["staging_buffer"] = "released" =>
         \A i \in 1 .. Len(cmd_bufs) :
            ReadsStagingBuffer(i) => cmd_bufs[i].state = "freed"
    /\ Len(SelectSeq(calls, LAMBDA c : c[2] = "destroy_buffer")) <= 1
    /\ texture.set => \A r \in StagingResources : res[r] = "released"

(***************************************************************************)
(* C5 as stated.  After a fatal failure every GPU object the construction  *)
(* had created is still allocated, and no release call was made on the     *)
(* path to the failure.                                                    *)
(***************************************************************************)
CreatedBy(r) ==
    CASE r \in StagingResources -> Call("create_texture_image",
                                        "create_buffer")
      [] r = "texture_image" -> Call("create_image", "create_image")
      [] r = "texture_image_memory" -> Call("create_image", "allocate_memory")
      [] r = "texture_image_view" -> Call("create_image_view",
                                          "create_image_view")
      [] r = "texture_sampler" -> Call("create_texture_sampler",
                                       "create_sampler")

Created(r) == \E i \in 1 .. Len(calls) : calls[i] = CreatedBy(r)

NothingReleasedOnFatalPath ==
    pc = "failed" =>
      /\ \A r \in Resources : Created(r) => res[r] = "live"
      /\ SelectSeq(calls, IsRelease) = <<>>

(***************************************************************************)
(* C5 as amended.  After a fatal failure every GPU object that was         *)
(* allocated when the failure happened is still allocated: the failure     *)
(* releases nothing.  The only releases on a fatal path are those of the   *)
(* staging buffer and its memory by create_texture_image itself, when the  *)
(* failure comes after them (image view or sampler creation).              *)
(***************************************************************************)
FailsAfterStagingRelease ==
    failed_at \in {"create_image_view", "create_sampler"}

LiveAtFailureStaysLive ==
    pc = "failed" =>
      /\ \A r \in Resources \ StagingResources :
            Created(r) => res[r] = "live"
      /\ \A r \in StagingResources :
            Created(r) =>
              res[r] = IF FailsAfterStagingRelease THEN "released" ELSE "live"
      /\ SelectSeq(calls, IsRelease) =
           IF FailsAfterStagingRelease
             THEN <<Call("create_texture_image", "destroy_buffer"),
                    Call("create_texture_image", "free_memory")>>
             ELSE <<>>

ImageViewLeaked ==
    /\ pc = "failed"
    /\ failed_at = "create_sampler"
    /\ res["texture_image_view"] = "live"
    /\ res["texture_image"] = "live"

(***************************************************************************)
(* C6.  At most one single-use command buffer is begun and not yet waited  *)
(* on, it is the one begun last, and whenever the host is outside          *)
(* transition_image_layout, copy_buffer_to_image and generate_mipmaps      *)
(* every command buffer begun so far has been ended, submitted, executed   *)
(* by the device and waited on.                                            *)
(***************************************************************************)
OneCommandSequenceAtATime ==
    /\ Cardinality(OpenCmds) <= 1
    /\ \A i \in OpenCmds : i = Len(cmd_bufs)
    /\ pc \notin InCommandSequence =>
         /\ OpenCmds = {}
         /\ executed = Flatten(cmd_bufs)

HostWaitsForDevice ==
    /\ pc = "cbi_wait"
    /\ Pending = {2}
    /\ cmd_bufs[1].state = "freed"

(***************************************************************************)
(* C7.  The staging buffer is 4 * width * height * layer_count bytes long, *)
(* and when that size is zero create_texture_image fails before it makes   *)
(* any device call.                                                        *)
(***************************************************************************)
ExactSize == Mul(Mul(Mul(ToDigits(4), width), height), array_size)

StagingSizeIsExactProduct ==
    /\ res["staging_buffer"] # "none" => staging.size = ExactSize
    /\ (pc \notin {"idle", "new_face", "cti_size"} /\ ExactSize = <<>>) =>
         pc = "failed" /\ calls = <<>>

(***************************************************************************)
(* C8.  The number of bytes written into the mapped staging memory equals  *)
(* the size of the staging buffer and does not exceed the mapped range.    *)
(***************************************************************************)
StagingFilledExactly ==
    staging.mapped # <<>> =>
      /\ staging.written = staging.size
      /\ ~Less(staging.mapped, staging.written)

(***************************************************************************)
(* C9.  In CubeTexture::new the width and height are those of the first    *)
(* decoded face, during the loop and in the call of from_pixels.           *)
(***************************************************************************)
FirstFaceSetsDimensions ==
    /\ (pc = "new_face" /\ face_idx >= 1) =>
         <<image_width, image_height>> = first_face
    /\ (face_idx = 6 /\ pc # "new_face") => <<width, height>> = first_face

(***************************************************************************)
(* C10.  Whatever create_mips, width and height are, create_texture_image  *)
(* uses and returns mip level count 1: the image, the barrier of the       *)
(* initial layout transition, the image view and the sampler are created   *)
(* with 1, and the CubeTexture records 1.                                  *)
(***************************************************************************)
MipLevelsIsOne ==
    /\ pc \notin {"idle", "new_face", "cti_size", "failed"} => mip_levels = 1
    /\ image_info.set => image_info.mip_levels = 1
    /\ \A i \in 1 .. Len(cmd_bufs) :
         cmd_bufs[i].owner = "transition_image_layout" =>
           \A k \in 1 .. Len(cmd_bufs[i].commands) :
              /\ cmd_bufs[i].commands[k].base_mip_level = 0
              /\ cmd_bufs[i].commands[k].level_count = 1
    /\ view_info.set => view_info.level_count = 1
    /\ sampler_info.set => sampler_info.max_lod = 1
    /\ texture.set => texture._mip_levels = 1

MipsRequestedButOneLevel ==
    /\ texture.set
    /\ create_mips
    /\ CandidateMipLevels(width, height, create_mips) > 1
    /\ texture._mip_levels = 1
    /\ image_info.mip_levels = 1
(***************************************************************************)
(* C11.  transition_image_layout fails fatally for every pair of layouts   *)
(* other than (UNDEFINED, TRANSFER_DST), (TRANSFER_DST, SHADER_READ_ONLY)  *)
(* and (UNDEFINED, COLOR_ATTACHMENT), and then it has recorded no command  *)
(* and submitted nothing; for each of the three pairs it does not fail.    *)
(***************************************************************************)
SupportedPairs ==
    {<<"UNDEFINED", "TRANSFER_DST_OPTIMAL">>,
     <<"TRANSFER_DST_OPTIMAL", "SHADER_READ_ONLY_OPTIMAL">>,
     <<"UNDEFINED", "COLOR_ATTACHMENT_OPTIMAL">>}

RequestedPair == <<callee_args.old_layout, callee_args.new_layout>>

OnlySupportedPairsSucceed ==
    /\ pc \notin {"til_begin", "til_record"} =>
         (pc = "failed" <=> RequestedPair \notin SupportedPairs)
    /\ pc = "failed" =>
         /\ failed_at = "Unsupported layout transition!"
         /\ \A i \in 1 .. Len(cmd_bufs) :
              cmd_bufs[i].commands = <<>> /\ cmd_bufs[i].state = "recording"
         /\ executed = <<>>
         /\ calls = <<Call("transition_image_layout",
                           "begin_single_time_command")>>

UnsupportedPairRejected ==
    /\ pc = "failed"
    /\ RequestedPair = <<"TRANSFER_SRC_OPTIMAL", "SHADER_READ_ONLY_OPTIMAL">>
    /\ Len(cmd_bufs) = 1

(***************************************************************************)
(* C15.  For each supported pair transition_image_layout records exactly   *)
(* one barrier, with the access masks and stages of the table of the       *)
(* specification, covering mip levels 0..mip_levels-1 and array layers     *)
(* 0..layer_count-1, in a command buffer of its own that it submits and    *)
(* waits for.                                                              *)
(***************************************************************************)
\* the table of section 4.3: src access, dst access, src stage, dst stage
TableRow(pair) ==
    CASE pair = <<"UNDEFINED", "TRANSFER_DST_OPTIMAL">> ->
           <<{}, {"TRANSFER_WRITE"}, "TOP_OF_PIPE", "TRANSFER">>
      [] pair = <<"TRANSFER_DST_OPTIMAL", "SHADER_READ_ONLY_OPTIMAL">> ->
           <<{"TRANSFER_WRITE"}, {"SHADER_READ"}, "TRANSFER",
             "FRAGMENT_SHADER">>
      [] pair = <<"UNDEFINED", "COLOR_ATTACHMENT_OPTIMAL">> ->
           <<{}, {"COLOR_ATTACHMENT_READ", "COLOR_ATTACHMENT_WRITE"},
             "TOP_OF_PIPE", "COLOR_ATTACHMENT_OUTPUT">>

TableBarrier ==
    [op |-> "pipeline_barrier",
     old_layout |-> RequestedPair[1], new_layout |-> RequestedPair[2],
     src_access_mask |-> TableRow(RequestedPair)[1],
     dst_access_mask |-> TableRow(RequestedPair)[2],
     src_stage |-> TableRow(RequestedPair)[3],
     dst_stage |-> TableRow(RequestedPair)[4],
     base_mip_level |-> 0, level_count |-> callee_args.mip_levels,
     base_array_layer |-> 0, layer_count |-> callee_args.layer_count]

TransitionRecordsTableBarrier ==
    RequestedPair \in SupportedPairs =>
      /\ Len(cmd_bufs) <= 1
      /\ pc \in {"til_end", "til_wait", "returned"} =>
           /\ Len(cmd_bufs) = 1
           /\ cmd_bufs[1].commands = <<TableBarrier>>
           /\ cmd_bufs[1].owner = "transition_image_layout"
      /\ executed \in {<<>>, <<TableBarrier>>}
      /\ pc = "returned" =>
           /\ executed = <<TableBarrier>>
           /\ cmd_bufs[1].state = "freed"
           /\ calls = <<Call("transition_image_layout",
                             "begin_single_time_command"),
                        Call("transition_image_layout",
                             "cmd_pipeline_barrier"),
                        Call("transition_image_layout",
                             "end_single_time_command"),
                        Call("transition_image_layout", "queue_wait_idle")>>

ShaderReadTransitionDone ==
    /\ pc = "returned"
    /\ RequestedPair = <<"TRANSFER_DST_OPTIMAL", "SHADER_READ_ONLY_OPTIMAL">>
    /\ callee_args.mip_levels > 1
    /\ callee_args.layer_count > 1
    /\ Len(executed) = 1

(***************************************************************************)
(* C12.  As stated: when mip_levels <= 1 generate_mipmaps records no blit  *)
(* and no pipeline barrier.                                                *)
(***************************************************************************)
Recorded == Flatten(cmd_bufs)

Blits(commands) == SelectSeq(commands, LAMBDA c : c.op = "blit_image")

Barriers(commands) == SelectSeq(commands, LAMBDA c : c.op = "pipeline_barrier")

ShaderReadBarrier(level, n) ==
    [op |-> "pipeline_barrier",
     old_layout |-> "TRANSFER_DST_OPTIMAL",
     new_layout |-> "SHADER_READ_ONLY_OPTIMAL",
     src_access_mask |-> {"TRANSFER_WRITE"},
     dst_access_mask |-> {"SHADER_READ"},
     src_stage |-> "TRANSFER", dst_stage |-> "FRAGMENT_SHADER",
     base_mip_level |-> level, level_count |-> 1,
     base_array_layer |-> 0, layer_count |-> n]

Half(d) == IF d \div 2 >= 1 THEN d \div 2 ELSE 1

BlitChain(blits) ==
    \A i \in 1 .. Len(blits) :
      /\ blits[i].src_mip_level = i - 1
      /\ blits[i].dst_mip_level = i
      /\ blits[i].src_extent =
           IF i = 1 THEN <<callee_args.tex_width, callee_args.tex_height, 1>>
           ELSE blits[i - 1].dst_extent
      /\ blits[i].dst_extent = <<Half(blits[i].src_extent[1]),
                                 Half(blits[i].src_extent[2]), 1>>

BlitsHalveEachLevel ==
    callee_args.mip_levels > 1 =>
      /\ pc \in {"gm_begin", "gm_record"} => Blits(Recorded) = <<>>
      /\ pc \in {"gm_end", "gm_wait", "returned"} =>
           /\ Len(Blits(Recorded)) = callee_args.mip_levels - 1
           /\ BlitChain(Blits(Recorded))
      /\ pc = "returned" => Blits(executed) = Blits(Recorded)

\* a chain of two blits 3x1 -> 1x1 -> 1x1: both floor a dimension at 1
TwoBlitsReachOneTexel ==
    /\ pc = "returned"
    /\ callee_args.mip_levels = 3
    /\ callee_args.tex_width = 3
    /\ callee_args.tex_height = 1
    /\ Len(Blits(executed)) = 2
    /\ Blits(executed)[2].src_extent = <<1, 1, 1>>
    /\ Blits(executed)[2].dst_extent = <<1, 1, 1>>

(***************************************************************************)
(* C16.  generate_mipmaps opens exactly one command buffer and submits it  *)
(* exactly once, after all recording.  In it, for each level i from 1 to   *)
(* mip_levels - 1 in increasing order, the barrier transfer-dst ->         *)
(* transfer-src on level i - 1 comes first, then the blit from level i - 1 *)
(* to level i, then the barrier transfer-src -> shader-read-only on level  *)
(* i - 1; the barrier transfer-dst -> shader-read-only on level            *)
(* mip_levels - 1 is the last command.                                     *)
(***************************************************************************)
IsLevelBarrier(c, from, to, level) ==
    /\ c.op = "pipeline_barrier"
    /\ c.old_layout = from
    /\ c.new_layout = to
    /\ c.base_mip_level = level
    /\ c.level_count = 1

IsLevelBlit(c, i) ==
    /\ c.op = "blit_image"
    /\ c.src_mip_level = i - 1
    /\ c.dst_mip_level = i

MipOrder(commands, levels) ==
    /\ Len(commands) = 3 * (levels - 1) + 1
    /\ \A i \in 1 .. levels - 1 :
         /\ IsLevelBarrier(commands[3 * i - 2], "TRANSFER_DST_OPTIMAL",
                           "TRANSFER_SRC_OPTIMAL", i - 1)
         /\ IsLevelBlit(commands[3 * i - 1], i)
         /\ IsLevelBarrier(commands[3 * i], "TRANSFER_SRC_OPTIMAL",
                           "SHADER_READ_ONLY_OPTIMAL", i - 1)
    /\ IsLevelBarrier(commands[Len(commands)], "TRANSFER_DST_OPTIMAL",
                      "SHADER_READ_ONLY_OPTIMAL", levels - 1)

\* how many times generate_mipmaps has made the call c
Count(c) ==
    Cardinality({k \in 1 .. Len(calls) :
                   calls[k] = Call("generate_mipmaps", c)})

OneSequenceSubmittedOnce ==
    /\ Len(cmd_bufs) <= 1
    /\ Count("begin_single_time_command") <= 1
    /\ Count("end_single_time_command") <= 1
    /\ pc = "gm_begin" <=> cmd_bufs = <<>>
    /\ pc = "gm_record" =>
         cmd_bufs[1].state = "recording" /\ cmd_bufs[1].commands = <<>>
    /\ pc = "gm_end" => cmd_bufs[1].state = "recording"
    /\ pc \in {"gm_end", "gm_wait", "returned"} =>
         MipOrder(cmd_bufs[1].commands, callee_args.mip_levels)
    /\ pc \in {"gm_wait", "returned"} =>
         /\ cmd_bufs[1].state # "recording"
         /\ Count("end_single_time_command") = 1
    /\ Count("end_single_time_command") = 1 =>
         calls[Len(calls)] \in
           {Call("generate_mipmaps", "end_single_time_command"),
            Call("generate_mipmaps", "queue_wait_idle")}
    /\ executed # <<>> => executed = cmd_bufs[1].commands

ThreeLevelsSubmitted ==
    /\ pc = "returned"
    /\ callee_args.mip_levels = 3
    /\ Len(executed) = 7
    /\ Count("end_single_time_command") = 1

(***************************************************************************)
(* C17.  No blit of generate_mipmaps reads or writes an array layer other  *)
(* than layer 0, so during construction the layers 1..layer_count-1 of     *)
(* every mip level above 0 are never written.                              *)
(***************************************************************************)
\* the (mip level, array layer) pairs a command writes
WrittenBy(c) ==
    IF c.op = "blit_image"
      THEN {<<c.dst_mip_level, k>> :
              k \in c.dst_base_array_layer ..
                    c.dst_base_array_layer + c.dst_layer_count - 1}
    ELSE IF c.op = "copy_buffer_to_image"
      THEN {<<c.mip_level, k>> :
              k \in c.base_array_layer ..
                    c.base_array_layer + c.layer_count - 1}
    ELSE {}

\* the (mip level, array layer) pairs a command reads
ReadBy(c) ==
    IF c.op = "blit_image"
      THEN {<<c.src_mip_level, k>> :
              k \in c.src_base_array_layer ..
                    c.src_base_array_layer + c.src_layer_count - 1}
    ELSE {}

Written(commands) == UNION {WrittenBy(commands[k]) : k \in 1 .. Len(commands)}

BlitsTouchLayerZeroOnly ==
    /\ \A k \in 1 .. Len(Recorded) :
         Recorded[k].op = "blit_image" =>
           \A sub \in ReadBy(Recorded[k]) \cup WrittenBy(Recorded[k]) :
             sub[2] = 0
    /\ \A sub \in Written(Recorded) \cup Written(executed) :
         sub[1] >= 1 => sub[2] = 0

UpperLayersOfMipsUnwritten ==
    /\ pc = "constructed"
    /\ mip_levels = 3
    /\ array_size = 6
    /\ Len(Blits(executed)) = 2
    /\ <<2, 0>> \in Written(executed)
    /\ <<0, 5>> \in Written(executed)
    /\ <<1, 1>> \notin Written(executed)

(***************************************************************************)
(* C18.  Throughout construction, every recorded barrier, buffer-to-image  *)
(* copy and blit names, for each (mip level, array layer) it covers, the   *)
(* layout that subresource is in at that point of the command order: the   *)
(* old_layout of a barrier, the destination layout of the copy, and the    *)
(* source and destination layouts of a blit.                               *)
(***************************************************************************)
\* the (mip level, array layer) pairs of the image
Subresources == (0 .. mip_levels - 1) \X (0 .. array_size - 1)

\* the (mip level, array layer) pairs a barrier covers
CoveredBy(c) ==
    (c.base_mip_level .. c.base_mip_level + c.level_count - 1)
      \X (c.base_array_layer .. c.base_array_layer + c.layer_count - 1)

\* the pairs <<subresource, layout>> a command names as current
NamedBy(c) ==
    IF c.op = "pipeline_barrier" THEN CoveredBy(c) \X {c.old_layout}
    ELSE IF c.op = "copy_buffer_to_image"
      THEN WrittenBy(c) \X {c.dst_image_layout}
    ELSE (ReadBy(c) \X {c.src_image_layout})
           \cup (WrittenBy(c) \X {c.dst_image_layout})

\* the layouts after a command has executed
LayoutsAfter(layouts, c) ==
    IF c.op = "pipeline_barrier"
      THEN [sub \in DOMAIN layouts |->
              IF sub \in CoveredBy(c) THEN c.new_layout ELSE layouts[sub]]
      ELSE layouts

\* the layouts after a sequence of commands has executed
RECURSIVE LayoutsAfterAll(_, _)
LayoutsAfterAll(layouts, commands) ==
    IF commands = <<>> THEN layouts
    ELSE LayoutsAfterAll(LayoutsAfter(layouts, Head(commands)), Tail(commands))

\* every command of the sequence names the layouts its subresources are in
RECURSIVE LayoutsAgree(_, _)
LayoutsAgree(layouts, commands) ==
    \/ commands = <<>>
    \/ /\ \A n \in NamedBy(Head(commands)) :
            n[1] \in DOMAIN layouts /\ layouts[n[1]] = n[2]
       /\ LayoutsAgree(LayoutsAfter(layouts, Head(commands)), Tail(commands))

\* the layouts of the image create_image returns
InitialLayouts == [sub \in Subresources |-> image_info.initial_layout]

NamedLayoutsAreCurrent ==
    image_info.set => LayoutsAgree(InitialLayouts, Recorded)

AllCommandsOfThreeLevelsRecorded ==
    /\ pc = "gm_end"
    /\ mip_levels = 3
    /\ array_size = 6
    /\ Len(Recorded) = 9
    /\ Len(executed) = 2

(***************************************************************************)
(* C19.  When from_pixels returns, every mip level and every array layer   *)
(* of the image is in shader-read-only layout, and the device has executed *)
(* every command recorded during construction.                             *)
(***************************************************************************)
AllShaderReadOnlyAtReturn ==
    pc = "constructed" =>
      /\ \A sub \in Subresources :
           LayoutsAfterAll(InitialLayouts, executed)[sub]
             = "SHADER_READ_ONLY_OPTIMAL"
      /\ executed = Recorded
      /\ \A i \in 1 .. Len(cmd_bufs) : cmd_bufs[i].state = "freed"

SixFacesThreeLevelsReturned ==
    /\ pc = "constructed"
    /\ mip_levels = 3
    /\ array_size = 6
    /\ Len(cmd_bufs) = 3
    /\ LayoutsAfterAll(InitialLayouts, executed)[<<2, 5>>]
         = "SHADER_READ_ONLY_OPTIMAL"

(***************************************************************************)
(* C14.  After a successful upload of a pixel buffer of                    *)
(* 4 * width * height * array_size bytes, array layer k of mip level 0     *)
(* holds the bytes [k * 4 * width * height, (k + 1) * 4 * width * height)  *)
(* of the pixel buffer, for the six layers of a cube as for any other      *)
(* number of layers.                                                       *)
(***************************************************************************)
FaceBytes == Mul(Mul(ToDigits(4), width), height)

Copies(commands) ==
    SelectSeq(commands, LAMBDA c : c.op = "copy_buffer_to_image")

\* the copy takes layer k from the staged bytes of face k of the pixel buffer
HoldsFace(c, k) ==
    /\ c.mip_level = 0
    /\ k \in c.base_array_layer .. c.base_array_layer + c.layer_count - 1
    /\ LayerSource(c, k).from = Mul(FaceBytes, k)
    /\ LayerSource(c, k).to = Mul(FaceBytes, k + 1)
    /\ ~Less(StagedBytes, LayerSource(c, k).to)

Level0HoldsPixelBuffer ==
    (pc = "constructed" /\ pixel_len = ExactSize) =>
      /\ Len(Copies(executed)) = 1
      /\ \A k \in 0 .. array_size - 1 : HoldsFace(Copies(executed)[1], k)
====
